---- MODULE Spec2Model ----
(***************************************************************************)
(* A model of home.py: the PDF question-generation and answer-validation   *)
(* API.  Python strings are sequences of one-character strings.  An        *)
(* exception is a record [type, status_code, detail]; detail is a sequence  *)
(* of message parts, so that wrapping an exception (f"...: {str(e)}") keeps *)
(* the wrapped message visible.                                             *)
(***************************************************************************)
EXTENDS Integers, Sequences, FiniteSets, TLC

VARIABLES
    pc,              \* position of the request being served
    endpoint,        \* the handler serving it
    file,            \* the upload: [filename, doc]
    difficulty,      \* form field of generate_questions
    question,        \* query parameter of validate_answers
    user_answer,     \* query parameter of validate_answers
    text,            \* extracted text (generate) / context (validate)
    chunks,          \* generate_questions: the chunks of text
    ci,              \* generate_questions: index of the next chunk
    questions,       \* generate_questions: the list built by the loop
    samples,         \* history: every sample the generator returned, in order
    ans_failed,      \* history: per appended question, did the oracle throw
    oracle_threw,    \* history: the call of line 100 or of line 135 threw
    correct_answer,  \* validate_answers: the oracle's answer
    extraction,      \* outcome record of extract_text_from_pdf
    response,        \* what the caller observes: [status_code, detail]
    gen_body,        \* body of a successful generate_questions response
    val_body         \* body of a successful validate_answers response (0 or 1 record)

vars == <<pc, endpoint, oracle_threw, file, difficulty, question, user_answer, text, chunks, ci,
          questions, samples, ans_failed, correct_answer, extraction,
          response, gen_body, val_body>>

(***************************************************************************)
(* Bounds of the explored inputs.                                          *)
(***************************************************************************)
MaxPad == 1
MaxRawLen == 3
MaxCleanLen == 5

(***************************************************************************)
(* Strings.                                                                *)
(***************************************************************************)
Min(a, b) == IF a <= b THEN a ELSE b

Rep(c, n) == [i \in 1..n |-> c]

Str(s) == <<s>>

Whitespace == {" ", "\n", "\t"}

LowerLetters == {"a", "b", "c", "q", "x"}

UpperLetters == {"A", "B"}

Digits == {"1"}

\* str.lower() on one character
Lower(c) == CASE c = "A" -> "a" [] c = "B" -> "b" [] OTHER -> c

\* s[i:j] with Python's 0-based, end-exclusive, clamped indices (0 <= i)
Slice(s, i, j) == SubSeq(s, i + 1, Min(j, Len(s)))

\* the first (dir = 1) or last (dir = -1) position of lo..hi that holds no
\* whitespace; 0 when there is none
RECURSIVE EdgeInk(_, _, _, _)
EdgeInk(s, lo, hi, dir) ==
    IF lo > hi THEN 0
    ELSE IF lo = hi THEN (IF s[lo] \in Whitespace THEN 0 ELSE lo)
    ELSE LET mid == (lo + hi) \div 2
             near == IF dir = 1 THEN EdgeInk(s, lo, mid, dir)
                                ELSE EdgeInk(s, mid + 1, hi, dir)
         IN  IF near # 0 THEN near
             ELSE IF dir = 1 THEN EdgeInk(s, mid + 1, hi, dir)
                             ELSE EdgeInk(s, lo, mid, dir)

\* str.strip(): drop leading and trailing whitespace
Strip(s) ==
    LET lo == EdgeInk(s, 1, Len(s), 1)
    IN  IF lo = 0 THEN <<>> ELSE SubSeq(s, lo, EdgeInk(s, 1, Len(s), -1))

\* str.endswith(suffix)
EndsWith(s, suffix) ==
    /\ Len(suffix) <= Len(s)
    /\ SubSeq(s, Len(s) - Len(suffix) + 1, Len(s)) = suffix

\* "sep".join(parts)
RECURSIVE Join(_, _)
Join(sep, parts) ==
    IF parts = <<>> THEN <<>>
    ELSE IF Len(parts) = 1 THEN parts[1]
    ELSE parts[1] \o sep \o Join(sep, Tail(parts))

\* every string over alphabet of length at most n
StringsUpTo(alphabet, n) == UNION {[1..k -> alphabet] : k \in 0..n}

(***************************************************************************)
(* Exceptions and responses.                                               *)
(***************************************************************************)
HTTPException(status, detail) ==
    [type |-> "HTTPException", status_code |-> status, detail |-> detail]

\* an exception raised by a library (the PDF parser, a model pipeline)
LibraryError(msg) == [type |-> "Exception", status_code |-> 0, detail |-> <<msg>>]

NoException == [type |-> "none", status_code |-> 0, detail |-> <<>>]

\* str(e), as the message parts of e
StrOf(e) == e.detail

\* the response FastAPI sends for an HTTPException that leaves the handler
ErrorResponse(e) == [status_code |-> e.status_code, detail |-> e.detail]

OkResponse == [status_code |-> 200, detail |-> <<>>]

NoResponse == [status_code |-> 0, detail |-> <<>>]

(***************************************************************************)
(* extract_text_from_pdf                                                   *)
(***************************************************************************)
TextLimit == 5000

PdfSuffix == <<".", "p", "d", "f">>

InvalidFormat == HTTPException(400, Str("Uploaded file is not a valid PDF."))

EmptyDocument == HTTPException(400, Str("PDF has no pages."))

NoExtractableText == HTTPException(400, Str("No extractable text found in PDF."))

\* except Exception as e: raise HTTPException(500, f"Error processing PDF: {str(e)}")
ExtractionFailure(e) == HTTPException(500, <<"Error processing PDF: ">> \o StrOf(e))

\* "\n".join([page.get_text("text") for page in doc])
PageText(doc) == Join(<<"\n">>, doc.pages)

\* the value of the return statement: text[:5000].strip()
ReturnedText(t) == Strip(Slice(t, 0, TextLimit))

\* the body of the try block; raised is the exception raised inside it
ExtractTry(f) ==
    IF ~EndsWith(f.filename, PdfSuffix)
    THEN [raised |-> InvalidFormat, value |-> <<>>, read |-> FALSE, opened |-> FALSE]
    ELSE IF f.doc.broken
    THEN [raised |-> LibraryError("cannot open broken document"), value |-> <<>>,
          read |-> TRUE, opened |-> TRUE]
    ELSE IF Len(f.doc.pages) = 0
    THEN [raised |-> EmptyDocument, value |-> <<>>, read |-> TRUE, opened |-> TRUE]
    ELSE IF Strip(PageText(f.doc)) = <<>>
    THEN [raised |-> NoExtractableText, value |-> <<>>, read |-> TRUE, opened |-> TRUE]
    ELSE [raised |-> NoException, value |-> ReturnedText(PageText(f.doc)),
          read |-> TRUE, opened |-> TRUE]

\* the whole function: every exception of the try block is caught and re-raised
extract_text_from_pdf(f) ==
    LET r == ExtractTry(f)
    IN  IF r.raised.type = "none" THEN r
        ELSE [r EXCEPT !.raised = ExtractionFailure(r.raised)]

(***************************************************************************)
(* clean_generated_text, generate_answer_type, generate_possible_answers   *)
(***************************************************************************)
ANSWER_TYPES == {"MCQ", "Sí/No", "Respuesta corta"}

Placeholder == <<Str("No se pudo generar respuesta")>>

YesNoAnswers == <<Str("Sí"), Str("No")>>

clean_generated_text_unstripped(t) == IF EndsWith(t, <<"?">>) THEN t ELSE <<>>

clean_generated_text(t) ==
    LET s == Strip(t) IN IF EndsWith(s, <<"?">>) THEN s ELSE <<>>

\* The oracle's part in one call of generate_possible_answers: throw_at is the
\* position of the first generator call that throws (0: none does), answer the
\* text every call that returns gives.
AnswerOracle == [throw_at : {0, 1, 4}, answer : {<<"x">>}]

\* did the oracle throw in a call the function reached
AnswerCallThrew(answer_type, o) ==
    \/ answer_type = "MCQ" /\ o.throw_at \in 1..4
    \/ answer_type = "Respuesta corta" /\ o.throw_at = 1

generate_possible_answers_partial(q, answer_type, o) ==
    IF answer_type = "MCQ"
    THEN IF o.throw_at \in 1..4
         THEN [i \in 1..(o.throw_at - 1) |-> o.answer]
         ELSE [i \in 1..4 |-> o.answer]
    ELSE IF answer_type = "Sí/No" THEN YesNoAnswers
    ELSE IF answer_type = "Respuesta corta"
    THEN IF o.throw_at = 1 THEN <<>> ELSE <<o.answer>>
    ELSE <<>>

generate_possible_answers(q, answer_type, o) ==
    IF answer_type = "MCQ"
    THEN IF o.throw_at \in 1..4 THEN Placeholder ELSE [i \in 1..4 |-> o.answer]
    ELSE IF answer_type = "Sí/No" THEN YesNoAnswers
    ELSE IF answer_type = "Respuesta corta"
    THEN IF o.throw_at = 1 THEN Placeholder ELSE <<o.answer>>
    ELSE <<>>

(***************************************************************************)
(* The chunking of generate_questions                                      *)
(***************************************************************************)
ChunkSize == 500

MaxChunks == 5

MaxQuestions == 10

NumSamples == 2

\* [text[i:i+500] for i in range(0, len(text), 500)]
AllChunks(t) ==
    [k \in 1..((Len(t) + ChunkSize - 1) \div ChunkSize) |->
        Slice(t, (k - 1) * ChunkSize, (k - 1) * ChunkSize + ChunkSize)]

ChunksOverlapping(t) ==
    [k \in 1..Min(MaxChunks, (Len(t) + ChunkSize - 1) \div ChunkSize) |->
        Slice(t, (k - 1) * (ChunkSize - 1), (k - 1) * (ChunkSize - 1) + ChunkSize)]

\* ...[:5]
Chunks(t) == Slice(AllChunks(t), 0, MaxChunks)

(***************************************************************************)
(* clean_text and is_answer_correct                                        *)
(***************************************************************************)
\* the characters re.sub(r'[^a-zA-Z0-9 ]', '', ...) keeps
Kept == LowerLetters \cup UpperLetters \cup Digits \cup {" "}

RECURSIVE RemoveOthers(_)
RemoveOthers(s) ==
    IF s = <<>> THEN <<>>
    ELSE IF Head(s) \in Kept THEN <<Head(s)>> \o RemoveOthers(Tail(s))
    ELSE RemoveOthers(Tail(s))

LowerStr(s) == [i \in 1..Len(s) |-> Lower(s[i])]

clean_text(t) == Strip(RemoveOthers(LowerStr(t)))

(* difflib.SequenceMatcher(None, a, b), isjunk = None, autojunk = True.    *)
(* Positions are 0-based and ranges half-open, as in difflib.              *)

\* __chain_b: with len(b) >= 200, the elements occurring more than
\* len(b) // 100 + 1 times are "popular" and dropped from b2j
Popular(b) ==
    IF Len(b) >= 200
    THEN {c \in {b[j] : j \in 1..Len(b)} :
            Cardinality({j \in 1..Len(b) : b[j] = c}) > Len(b) \div 100 + 1}
    ELSE {}

\* a[i:i+k] == b[j:j+k], every element of it indexed by b2j
IsBlock(a, b, i, j, k) ==
    \A t \in 0..(k - 1) : a[i + t + 1] = b[j + t + 1] /\ b[j + t + 1] \notin Popular(b)

\* the dynamic programme of find_longest_match: the longest block in
\* a[alo:ahi] x b[blo:bhi]; of those the one starting earliest in a, and of
\* those the one starting earliest in b; (alo, blo, 0) when there is none
LongestBlock(a, b, alo, ahi, blo, bhi) ==
    LET cand == {m \in (alo..(ahi - 1)) \X (blo..(bhi - 1)) \X (1..(ahi - alo)) :
                    /\ m[1] + m[3] <= ahi
                    /\ m[2] + m[3] <= bhi
                    /\ IsBlock(a, b, m[1], m[2], m[3])}
        Better(m, n) ==
            \/ m[3] > n[3]
            \/ m[3] = n[3] /\ m[1] < n[1]
            \/ m[3] = n[3] /\ m[1] = n[1] /\ m[2] <= n[2]
    IN  IF cand = {} THEN <<alo, blo, 0>>
        ELSE CHOOSE m \in cand : \A n \in cand : Better(m, n)

\* the first pair of extension loops: grow the block over equal elements of
\* b that are not junk (popular elements are not junk)
RECURSIVE ExtendLeft(_, _, _, _, _)
ExtendLeft(a, b, alo, blo, m) ==
    IF m[1] > alo /\ m[2] > blo /\ a[m[1]] = b[m[2]]
    THEN ExtendLeft(a, b, alo, blo, <<m[1] - 1, m[2] - 1, m[3] + 1>>)
    ELSE m

RECURSIVE ExtendRight(_, _, _, _, _)
ExtendRight(a, b, ahi, bhi, m) ==
    IF m[1] + m[3] < ahi /\ m[2] + m[3] < bhi /\ a[m[1] + m[3] + 1] = b[m[2] + m[3] + 1]
    THEN ExtendRight(a, b, ahi, bhi, <<m[1], m[2], m[3] + 1>>)
    ELSE m

find_longest_match(a, b, alo, ahi, blo, bhi) ==
    ExtendRight(a, b, ahi, bhi,
        ExtendLeft(a, b, alo, blo, LongestBlock(a, b, alo, ahi, blo, bhi)))

\* get_matching_blocks: the total size of the blocks found by splitting
\* around the longest match and recursing to its left and to its right
RECURSIVE Matches(_, _, _, _, _, _)
Matches(a, b, alo, ahi, blo, bhi) ==
    IF alo >= ahi \/ blo >= bhi THEN 0
    ELSE LET m == find_longest_match(a, b, alo, ahi, blo, bhi)
         IN  IF m[3] = 0 THEN 0
             ELSE m[3]
                  + (IF alo < m[1] /\ blo < m[2]
                     THEN Matches(a, b, alo, m[1], blo, m[2]) ELSE 0)
                  + (IF m[1] + m[3] < ahi /\ m[2] + m[3] < bhi
                     THEN Matches(a, b, m[1] + m[3], ahi, m[2] + m[3], bhi) ELSE 0)

\* ratio(): 2.0 * matches / length, 1.0 when length is 0; as a fraction
Ratio(a, b) ==
    IF Len(a) + Len(b) = 0 THEN [num |-> 1, den |-> 1]
    ELSE [num |-> 2 * Matches(a, b, 0, Len(a), 0, Len(b)), den |-> Len(a) + Len(b)]

\* threshold: float = 0.8, as ThresholdNum / ThresholdDen
ThresholdNum == 8

ThresholdDen == 10

RatioAtLeast(r, num, den) == r.num * den >= num * r.den

is_answer_correct_strict(u, c) ==
    LET r == Ratio(clean_text(u), clean_text(c))
    IN  r.num * ThresholdDen > ThresholdNum * r.den

is_answer_correct(u, c) ==
    RatioAtLeast(Ratio(clean_text(u), clean_text(c)), ThresholdNum, ThresholdDen)

(***************************************************************************)
(* The explored inputs.                                                    *)
(***************************************************************************)
Cycle == <<"a", "b", "c">>

\* a text of n letters
Body(n) == [i \in 1..n |-> Cycle[((i - 1) % 3) + 1]]

\* a page: lead spaces, n letters, trail spaces
Page(lead, n, trail) == Rep(" ", lead) \o Body(n) \o Rep(" ", trail)

Document(pages) == [broken |-> FALSE, pages |-> pages]

BrokenDocument == [broken |-> TRUE, pages |-> <<>>]

Pads == 0..MaxPad

\* documents for extract_text_from_pdf alone
ExtractDocs ==
    {BrokenDocument, Document(<<>>)}
    \cup {Document(<<Page(l, n, t)>>) :
            l \in Pads \cup {TextLimit - 1, TextLimit},
            n \in {0, 1, 2, TextLimit, TextLimit + 1},
            t \in Pads}
    \cup {Document(<<Page(l, n, 0), Page(0, m, t)>>) :
            l \in Pads, n \in 0..1, m \in 0..1, t \in Pads}

Filenames ==
    { <<"a", ".", "p", "d", "f">>, <<"a", ".", "t", "x", "t">>,
      <<"a", ".", "P", "D", "F">>, <<"p", "d", "f">>, <<>> }

ExtractFiles == [filename : Filenames, doc : ExtractDocs]

\* uploads of the two endpoints
Uploads ==
    [filename : { <<"a", ".", "p", "d", "f">>, <<"a", ".", "t", "x", "t">> },
     doc : {BrokenDocument, Document(<<>>), Document(<<Page(MaxPad, 0, 0)>>),
            Document(<<Page(TextLimit, 1, 0)>>), Document(<<Page(MaxPad, 2, 0)>>),
            Document(<<Page(0, ChunkSize, MaxPad), Page(0, 1, 0)>>)}]

Difficulties == {"medium", "hard"}

\* what the generator returns for a prompt: accepted and rejected samples
SampleTexts == { <<"a", "?">>, <<" ", "b", "?", " ">>, <<"c", "?", "a">> }

\* the generator's and random.choice's part in the handling of one sample
SampleChoice ==
    [text : SampleTexts, type : ANSWER_TYPES, oracle : AnswerOracle]

QuestionInputs == { <<>>, <<"q", "?">> }

UserAnswerInputs == { <<>>, <<"a", "b">>, <<"A", " ", "b", "!">> }

\* the response of qa_pipeline: a dict that may lack "answer"
QaResponses ==
    [has_answer : BOOLEAN, answer : { <<>>, <<"a", "b">>, <<"a", "b", "x">>, <<"x">> }]

RawAlphabet == {"a", "B", "1", " ", "!"}

CleanStrings == StringsUpTo({"a", "b"}, MaxCleanLen)

\* what the user submits
UserAnswers == StringsUpTo(RawAlphabet, MaxRawLen) \cup CleanStrings

\* what qa_pipeline answers: a non-empty span of the context
OracleAnswers ==
    (StringsUpTo(RawAlphabet, MaxRawLen - 1) \cup CleanStrings) \ {<<>>}

(***************************************************************************)
(* The state of a worker with no request.                                  *)
(***************************************************************************)
NoFile == [filename |-> <<>>, doc |-> Document(<<>>)]

NoExtraction ==
    [raised |-> NoException, value |-> <<>>, read |-> FALSE, opened |-> FALSE]

Blank(except) ==
    /\ "file" \in except \/ file = NoFile
    /\ endpoint = ""
    /\ oracle_threw = FALSE
    /\ difficulty = ""
    /\ "question" \in except \/ question = <<>>
    /\ "user_answer" \in except \/ user_answer = <<>>
    /\ "text" \in except \/ text = <<>>
    /\ chunks = <<>>
    /\ ci = 0
    /\ questions = <<>>
    /\ samples = <<>>
    /\ ans_failed = <<>>
    /\ "correct_answer" \in except \/ correct_answer = <<>>
    /\ extraction = NoExtraction
    /\ response = NoResponse
    /\ gen_body = <<>>
    /\ val_body = <<>>

Init == pc = "idle" /\ Blank({})

(***************************************************************************)
(* generate_questions                                                      *)
(***************************************************************************)
NoTextExtracted == HTTPException(400, Str("No text extracted from PDF."))

GenerationFailure(e) == HTTPException(500, <<"AI generation error: ">> \o StrOf(e))

NoQuestionsGeneratedBadInput ==
    HTTPException(400, Str("Failed to generate valid questions."))

NoQuestionsGenerated == HTTPException(500, Str("Failed to generate valid questions."))

\* the body of "for q in generated" for the samples from position i on:
\* the records appended, and for each whether the oracle threw for it
RECURSIVE Appended(_, _)
Appended(choice, i) ==
    IF i > Len(choice) THEN [qs |-> <<>>, failed |-> <<>>]
    ELSE LET c == choice[i]
             clean_q == clean_generated_text(c.text)
             rest == Appended(choice, i + 1)
         IN  IF clean_q = <<>> THEN rest
             ELSE [qs |-> <<[question |-> <<clean_q>>,
                             type |-> <<c.type>>,
                             answers |-> generate_possible_answers(clean_q, c.type, c.oracle)]>>
                          \o rest.qs,
                   failed |-> <<AnswerCallThrew(c.type, c.oracle)>> \o rest.failed]

\* questions[:10]
ReturnedQuestions(qs) == Slice(qs, 0, MaxQuestions)

\* lines 89-96: extraction, the empty-text check, the chunking
GenerateQuestionsStart ==
    /\ pc = "idle"
    /\ \E f \in Uploads, d \in Difficulties :
        LET e == extract_text_from_pdf(f)
        IN  /\ endpoint' = "generate_questions"
            /\ file' = f
            /\ difficulty' = d
            /\ extraction' = e
            /\ IF e.raised.type # "none"
               THEN /\ response' = ErrorResponse(e.raised)
                    /\ pc' = "done"
                    /\ UNCHANGED <<text, chunks, ci>>
               ELSE IF e.value = <<>>
               THEN /\ response' = ErrorResponse(NoTextExtracted)
                    /\ pc' = "done"
                    /\ UNCHANGED <<text, chunks, ci>>
               ELSE /\ text' = e.value
                    /\ chunks' = Chunks(e.value)
                    /\ ci' = 1
                    /\ pc' = "generate"
                    /\ UNCHANGED response
    /\ UNCHANGED <<question, user_answer, questions, samples, ans_failed,
                   oracle_threw, correct_answer, gen_body, val_body>>

\* the loop body with the generator's exception swallowed instead of re-raised
GenerateQuestionsChunkSwallows ==
    /\ pc = "generate"
    /\ ci <= Len(chunks)
    /\ \/ /\ oracle_threw' = TRUE
          /\ ci' = ci + 1
          /\ UNCHANGED <<pc, response, questions, samples, ans_failed>>
       \/ \E choice \in [1..NumSamples -> SampleChoice] :
            LET new == Appended(choice, 1)
            IN  /\ questions' = questions \o new.qs
                /\ ans_failed' = ans_failed \o new.failed
                /\ samples' = samples \o [i \in 1..NumSamples |-> choice[i].text]
                /\ ci' = ci + 1
                /\ UNCHANGED <<pc, response, oracle_threw>>
    /\ UNCHANGED <<endpoint, file, difficulty, question, user_answer, text, chunks,
                   correct_answer, extraction, gen_body, val_body>>

\* lines 97-108: one iteration of "for chunk in chunks"
GenerateQuestionsChunk ==
    /\ pc = "generate"
    /\ ci <= Len(chunks)
    /\ \/ /\ response' = ErrorResponse(GenerationFailure(LibraryError("generator failed")))
          /\ pc' = "done"
          /\ oracle_threw' = TRUE
          /\ UNCHANGED <<ci, questions, samples, ans_failed>>
       \/ \E choice \in [1..NumSamples -> SampleChoice] :
            LET new == Appended(choice, 1)
            IN  /\ questions' = questions \o new.qs
                /\ ans_failed' = ans_failed \o new.failed
                /\ samples' = samples \o [i \in 1..NumSamples |-> choice[i].text]
                /\ ci' = ci + 1
                /\ UNCHANGED <<pc, response, oracle_threw>>
    /\ UNCHANGED <<endpoint, file, difficulty, question, user_answer, text, chunks,
                   correct_answer, extraction, gen_body, val_body>>

\* lines 110-113: after the loop
GenerateQuestionsFinish ==
    /\ pc = "generate"
    /\ ci > Len(chunks)
    /\ IF questions = <<>>
       THEN /\ response' = ErrorResponse(NoQuestionsGenerated)
            /\ UNCHANGED gen_body
       ELSE /\ response' = OkResponse
            /\ gen_body' = ReturnedQuestions(questions)
    /\ pc' = "done"
    /\ UNCHANGED <<endpoint, oracle_threw, file, difficulty, question, user_answer,
                   text, chunks, ci, questions, samples, ans_failed, correct_answer,
                   extraction, val_body>>

(***************************************************************************)
(* validate_answers                                                        *)
(***************************************************************************)
InvalidInput ==
    HTTPException(400, Str("Invalid input: question, answer, and PDF file are required."))

NoAnswerFound == HTTPException(400, Str("No valid answer found in the context."))

ValidationFailure(e) == HTTPException(500, <<"AI validation error: ">> \o StrOf(e))

\* lines 142 and 147
ValidationBody(q, u, c) ==
    [question |-> q, user_answer |-> u, correct_answer |-> c,
     is_correct |-> IF is_answer_correct(u, c) THEN "yes" ELSE "no"]

\* lines 129-132
ValidateAnswersStart ==
    /\ pc = "idle"
    /\ \E f \in Uploads, q \in QuestionInputs, u \in UserAnswerInputs :
        LET e == extract_text_from_pdf(f)
        IN  /\ endpoint' = "validate_answers"
            /\ file' = f
            /\ question' = q
            /\ user_answer' = u
            /\ extraction' = e
            /\ IF e.raised.type # "none"
               THEN /\ response' = ErrorResponse(e.raised)
                    /\ pc' = "done"
                    /\ UNCHANGED text
               ELSE IF q = <<>> \/ u = <<>> \/ e.value = <<>>
               THEN /\ response' = ErrorResponse(InvalidInput)
                    /\ pc' = "done"
                    /\ text' = e.value
               ELSE /\ text' = e.value
                    /\ pc' = "validate"
                    /\ UNCHANGED response
    /\ UNCHANGED <<difficulty, chunks, ci, questions, samples, ans_failed,
                   oracle_threw, correct_answer, gen_body, val_body>>

\* the except clause of lines 143-145
ValidateAnswersRaise(e) == ErrorResponse(ValidationFailure(e))

\* lines 134-147: the oracle call and what follows it
ValidateAnswersOracle ==
    /\ pc = "validate"
    /\ \/ /\ response' = ValidateAnswersRaise(LibraryError("pipeline failed"))
          /\ oracle_threw' = TRUE
          /\ UNCHANGED <<correct_answer, val_body>>
       \/ \E r \in QaResponses :
            LET c == IF r.has_answer THEN r.answer ELSE <<>>
            IN  /\ correct_answer' = c
                /\ UNCHANGED oracle_threw
                /\ IF c = <<>>
                   THEN /\ response' = ValidateAnswersRaise(NoAnswerFound)
                        /\ UNCHANGED val_body
                   ELSE /\ response' = OkResponse
                        /\ val_body' = <<ValidationBody(question, user_answer, c)>>
    /\ pc' = "done"
    /\ UNCHANGED <<endpoint, file, difficulty, question, user_answer, text, chunks,
                   ci, questions, samples, ans_failed, extraction, gen_body>>

\* the worker takes the next request; nothing is kept between requests
NextRequest ==
    /\ pc = "done"
    /\ pc' = "idle"
    /\ endpoint' = ""
    /\ oracle_threw' = FALSE
    /\ file' = NoFile
    /\ difficulty' = ""
    /\ question' = <<>>
    /\ user_answer' = <<>>
    /\ text' = <<>>
    /\ chunks' = <<>>
    /\ ci' = 0
    /\ questions' = <<>>
    /\ samples' = <<>>
    /\ ans_failed' = <<>>
    /\ correct_answer' = <<>>
    /\ extraction' = NoExtraction
    /\ response' = NoResponse
    /\ gen_body' = <<>>
    /\ val_body' = <<>>

Next ==
    \/ GenerateQuestionsStart
    \/ GenerateQuestionsChunk
    \/ GenerateQuestionsFinish
    \/ ValidateAnswersStart
    \/ ValidateAnswersOracle
    \/ NextRequest

Spec == Init /\ [][Next]_vars

(***************************************************************************)
(* extract_text_from_pdf on its own                                        *)
(***************************************************************************)
InitExtract == pc = "extract" /\ file \in ExtractFiles /\ Blank({"file"})

Extract ==
    /\ pc = "extract"
    /\ extraction' = extract_text_from_pdf(file)
    /\ pc' = "extracted"
    /\ UNCHANGED <<endpoint, oracle_threw, file, difficulty, question, user_answer, text, chunks, ci,
                   questions, samples, ans_failed, correct_answer, response,
                   gen_body, val_body>>

SpecExtract == InitExtract /\ [][Extract]_vars

(***************************************************************************)
(* The chunking on its own, on every length extraction can return          *)
(***************************************************************************)
InitChunk ==
    /\ pc = "chunk"
    /\ text \in {Body(n) : n \in 1..TextLimit}
    /\ Blank({"text"})

Chunk ==
    /\ pc = "chunk"
    /\ chunks' = Chunks(text)
    /\ pc' = "chunked"
    /\ UNCHANGED <<endpoint, oracle_threw, file, difficulty, question, user_answer, text, ci,
                   questions, samples, ans_failed, correct_answer, extraction,
                   response, gen_body, val_body>>

SpecChunk == InitChunk /\ [][Chunk]_vars

(***************************************************************************)
(* The judgement of validate_answers on its own                            *)
(***************************************************************************)
InitAnswer ==
    /\ pc = "judge"
    /\ question = <<"q", "?">>
    /\ user_answer \in UserAnswers
    /\ correct_answer \in OracleAnswers
    /\ Blank({"question", "user_answer", "correct_answer"})

Judge ==
    /\ pc = "judge"
    /\ val_body' = <<ValidationBody(question, user_answer, correct_answer)>>
    /\ pc' = "judged"
    /\ UNCHANGED <<endpoint, oracle_threw, file, difficulty, question, user_answer, text, chunks, ci,
                   questions, samples, ans_failed, correct_answer, extraction,
                   response, gen_body>>

SpecAnswer == InitAnswer /\ [][Judge]_vars

(***************************************************************************)
(* The claims.                                                             *)
(***************************************************************************)
IsMember(x, seq) == \E i \in 1..Len(seq) : seq[i] = x

\* C1: an upload whose filename does not end in ".pdf" makes
\* extract_text_from_pdf fail with InvalidFormat (status 400, "Uploaded file
\* is not a valid PDF.") as the error the caller observes, before the bytes
\* are read or the parser is opened.
C1_InvalidFormatObserved ==
    (pc = "extracted" /\ ~EndsWith(file.filename, PdfSuffix))
        => /\ extraction.raised = InvalidFormat
           /\ ~extraction.read
           /\ ~extraction.opened

\* the upload was parsed: a PDF name, a document the parser opens, with pages
Parsed(f) == EndsWith(f.filename, PdfSuffix) /\ ~f.doc.broken /\ Len(f.doc.pages) > 0

\* C2: extract_text_from_pdf never returns an empty string: whenever the text
\* that would be returned (page text, first 5000 characters, trimmed) is empty,
\* the call fails with the NoExtractableText error instead of succeeding.
C2_EmptyTextRaises ==
    (pc = "extracted" /\ Parsed(file)
     /\ Strip(SubSeq(PageText(file.doc), 1, Min(TextLimit, Len(PageText(file.doc))))) = <<>>)
        => /\ extraction.raised.type = "HTTPException"
           /\ IsMember("No extractable text found in PDF.", extraction.raised.detail)

GenerateSucceeded ==
    pc = "done" /\ endpoint = "generate_questions" /\ response.status_code = 200

\* C3 as claimed: in every successful generate_questions response, whatever
\* the oracle does, an MCQ question has exactly 4 candidate answers, a Sí/No
\* question exactly ["Sí", "No"], a Respuesta corta question exactly 1.
C3_AnswerCountsAlways ==
    GenerateSucceeded =>
        \A i \in 1..Len(gen_body) :
            /\ gen_body[i].type = <<"MCQ">> => Len(gen_body[i].answers) = 4
            /\ gen_body[i].type = <<"Sí/No">> => gen_body[i].answers = <<Str("Sí"), Str("No")>>
            /\ gen_body[i].type = <<"Respuesta corta">> => Len(gen_body[i].answers) = 1

\* C3 as amended: in every successful generate_questions response, an MCQ
\* question has exactly 4 candidate answers when no oracle call threw while
\* they were generated and the one-element placeholder list when one did; a
\* Sí/No question has exactly ["Sí", "No"]; a Respuesta corta question has
\* exactly 1 candidate answer (the placeholder when the oracle threw).
C3_AnswerCountsOrPlaceholder ==
    GenerateSucceeded =>
        \A i \in 1..Len(gen_body) :
            /\ gen_body[i].type[1] \in {"MCQ", "Sí/No", "Respuesta corta"}
            /\ gen_body[i].type = <<"MCQ">> =>
                  IF ans_failed[i]
                  THEN gen_body[i].answers = <<Str("No se pudo generar respuesta")>>
                  ELSE Len(gen_body[i].answers) = 4
            /\ gen_body[i].type = <<"Sí/No">> => gen_body[i].answers = <<Str("Sí"), Str("No")>>
            /\ gen_body[i].type = <<"Respuesta corta">> =>
                  /\ Len(gen_body[i].answers) = 1
                  /\ ans_failed[i] =>
                        gen_body[i].answers = <<Str("No se pudo generar respuesta")>>

C3_Witness ==
    /\ GenerateSucceeded
    /\ \E i, j \in 1..Len(gen_body) :
        /\ gen_body[i].type = <<"MCQ">> /\ ans_failed[i]
        /\ gen_body[j].type = <<"MCQ">> /\ ~ans_failed[j]

\* validate_answers got an empty answer from the oracle
OracleAnsweredEmpty ==
    /\ pc = "done"
    /\ endpoint = "validate_answers"
    /\ extraction.raised.type = "none"
    /\ question # <<>> /\ user_answer # <<>> /\ text # <<>>
    /\ ~oracle_threw
    /\ correct_answer = <<>>

\* C4: a validate_answers request with non-empty question, user answer and
\* context whose oracle answer is empty or missing fails with NoAnswerFound
\* (status 400, "No valid answer found in the context.") as the error the
\* caller observes, not with the status-500 ValidationFailure.
C4_NoAnswerFoundObserved ==
    OracleAnsweredEmpty =>
        /\ response.status_code = 400
        /\ response.detail = <<"No valid answer found in the context.">>

\* s.strip() ends with "?"
IsQuestionText(s) == Strip(s) # <<>> /\ Strip(s)[Len(Strip(s))] = "?"

\* generate_questions went through all its chunks, no oracle call threw and
\* no sample was accepted
NothingAccepted ==
    /\ pc = "done"
    /\ endpoint = "generate_questions"
    /\ extraction.raised.type = "none"
    /\ ~oracle_threw
    /\ \A i \in 1..Len(samples) : ~IsQuestionText(samples[i])
    /\ \A i \in 1..Len(ans_failed) : ~ans_failed[i]

\* C5 as claimed: a generate_questions request in which extraction succeeds
\* (its text is not empty), no oracle call throws and no sample is accepted
\* fails with NoQuestionsGenerated, reported in the bad-input category (4xx).
C5_NoQuestionsIsBadInput ==
    (NothingAccepted /\ extraction.value # <<>>)
        => /\ response.detail = <<"Failed to generate valid questions.">>
           /\ response.status_code \in 400..499

\* C5 as amended: such a request fails with NoQuestionsGenerated, reported
\* with status 500, the category of oracle errors; when extraction returned
\* the empty string the request fails before the chunking, with status 400
\* and "No text extracted from PDF.".
C5_NoQuestionsIsInternal ==
    NothingAccepted =>
        IF extraction.value # <<>>
        THEN /\ response.detail = <<"Failed to generate valid questions.">>
             /\ response.status_code = 500
             /\ gen_body = <<>>
        ELSE /\ response.detail = <<"No text extracted from PDF.">>
             /\ response.status_code = 400
             /\ gen_body = <<>>

C5_Witness ==
    /\ NothingAccepted
    /\ extraction.value # <<>>
    /\ Len(chunks) = 2
    /\ Len(samples) = 4
    /\ response.status_code = 500

RECURSIVE Concat(_)
Concat(ss) == IF ss = <<>> THEN <<>> ELSE Head(ss) \o Concat(Tail(ss))

\* C6: for a text of length L >= 1 the chunks number min(5, ceil(L/500)); each
\* is the substring of at most 500 characters at its place, in order, only
\* the last may be shorter; their concatenation is the first min(2500, L)
\* characters of the text.
C6_Chunks ==
    pc = "chunked" =>
        LET L == Len(text)
            n == Len(chunks)
        IN  /\ n = Min(5, (L + 499) \div 500)
            /\ \A k \in 1..n :
                /\ Len(chunks[k]) >= 1
                /\ Len(chunks[k]) <= 500
                /\ k < n => Len(chunks[k]) = 500
                /\ \A j \in 1..Len(chunks[k]) : chunks[k][j] = text[500 * (k - 1) + j]
            /\ Concat(chunks) = SubSeq(text, 1, Min(2500, L))

C6_Witness ==
    /\ pc = "chunked"
    /\ Len(text) = 2501
    /\ Len(chunks) = 5
    /\ Len(chunks[5]) = 500

RECURSIVE Accepted(_)
Accepted(ss) ==
    IF ss = <<>> THEN <<>>
    ELSE (IF IsQuestionText(Head(ss)) THEN <<Strip(Head(ss))>> ELSE <<>>)
         \o Accepted(Tail(ss))

\* C7: the question list of a successful generate_questions response is the
\* first 10 accepted samples (trimmed, ending with "?"), in chunk order and
\* within a chunk in sample order: 1 to 10 entries, none of them a rejected
\* sample, each question text ending with "?".
C7_FirstTenAccepted ==
    GenerateSucceeded =>
        LET acc == Accepted(samples)
        IN  /\ Len(gen_body) = Min(10, Len(acc))
            /\ Len(gen_body) >= 1
            /\ \A i \in 1..Len(gen_body) :
                /\ gen_body[i].question = <<acc[i]>>
                /\ acc[i][Len(acc[i])] = "?"

C7_Witness ==
    /\ GenerateSucceeded
    /\ Len(samples) = 4
    /\ ~IsQuestionText(samples[1])
    /\ ~IsQuestionText(samples[3])
    /\ Len(gen_body) = 2
    /\ gen_body[1].question # gen_body[2].question

\* C8: in generate_questions an oracle failure aborts the request exactly
\* when it occurs while questions are generated for a chunk: then the request
\* fails with GenerationFailure (status 500) and returns no questions, even
\* after earlier chunks gave accepted questions; a failure while candidate
\* answers are generated does not abort, the question is kept and its
\* candidate answers are the whole placeholder list.
C8_AbortOnlyInGeneration ==
    (pc = "done" /\ endpoint = "generate_questions" /\ ci >= 1) =>
        /\ oracle_threw =>
              /\ response.status_code = 500
              /\ response.detail[1] = "AI generation error: "
              /\ gen_body = <<>>
        /\ ~oracle_threw =>
              /\ response.detail = <<>> \/ response.detail[1] # "AI generation error: "
              /\ questions # <<>> =>
                    /\ response.status_code = 200
                    /\ gen_body = questions
                    /\ \A i \in 1..Len(gen_body) :
                          ans_failed[i] =>
                              gen_body[i].answers = <<Str("No se pudo generar respuesta")>>

C8_Witness ==
    /\ pc = "done"
    /\ endpoint = "generate_questions"
    /\ oracle_threw
    /\ questions # <<>>
    /\ \E i \in 1..Len(ans_failed) : ans_failed[i]
    /\ response.status_code = 500

\* the normal form of the claim: lowercased, every character other than an
\* ASCII letter, a digit or a space removed, then trimmed
NormalForm(s) ==
    LET low == [i \in 1..Len(s) |->
                   IF s[i] = "A" THEN "a" ELSE IF s[i] = "B" THEN "b" ELSE s[i]]
        keep == {"a", "b", "c", "q", "x", "A", "B", "1", " "}
        F[i \in 0..Len(s)] ==
            IF i = 0 THEN <<>>
            ELSE IF low[i] \in keep THEN F[i - 1] \o <<low[i]>> ELSE F[i - 1]
    IN  Strip(F[Len(s)])

MatchedChars(a, b) == Matches(a, b, 0, Len(a), 0, Len(b))

\* C9: is_answer_correct, and the is_correct flag, is affirmative exactly when
\* the ratio 2*M/T of the two normal forms is at least 0.8, that is when
\* 10*M >= 4*T; two answers with the same normal form are judged correct.
C9_ThresholdVerdict ==
    pc = "judged" =>
        LET u == NormalForm(user_answer)
            c == NormalForm(correct_answer)
            yes == val_body[1].is_correct = "yes"
        IN  /\ val_body[1].is_correct \in {"yes", "no"}
            /\ yes <=> (10 * MatchedChars(u, c) >= 4 * (Len(u) + Len(c)))
            /\ u = c => yes

C9_Witness ==
    /\ pc = "judged"
    /\ val_body[1].is_correct = "yes"
    /\ NormalForm(user_answer) # user_answer
    /\ NormalForm(user_answer) # NormalForm(correct_answer)
    /\ Len(NormalForm(user_answer)) + Len(NormalForm(correct_answer)) = 5
    /\ MatchedChars(NormalForm(user_answer), NormalForm(correct_answer)) = 2

\* C10: the similarity ratio is symmetric, ratio(a, b) = ratio(b, a), so
\* swapping the user answer and the correct answer never changes the verdict
\* (stated by its consequence: a changed verdict is a changed ratio).
C10_RatioSymmetric ==
    pc = "judged" =>
        LET u == clean_text(user_answer)
            c == clean_text(correct_answer)
        IN  RatioAtLeast(Ratio(u, c), ThresholdNum, ThresholdDen)
                = RatioAtLeast(Ratio(c, u), ThresholdNum, ThresholdDen)

====
